---- MODULE Spec2Model ----
(***************************************************************************)
(* Model of the mesh analysis engine analyzeGeometry (geometryUtils):      *)
(* vertex merging, face construction, soup emission, half-edge derivation  *)
(* with twin linking, and winged-edge consolidation.                       *)
(*                                                                         *)
(* Numbers.  A raw coordinate is an exact decimal held in thousandths (the *)
(* integer 1004 is 1.004); a rounded coordinate, as stored in a vertex, is *)
(* held in hundredths (the integer 100 is 1.00).  Binary floating-point    *)
(* representation error is outside the model.                              *)
(* Strings.  A string is a sequence of one-character strings.              *)
(* Arrays.   A JavaScript array is a sequence; At reads it 0-based.        *)
(* Maps.     A Map is a function whose DOMAIN is its key set.              *)
(***************************************************************************)
EXTENDS Integers, Sequences, FiniteSets, TLC

VARIABLES
    positions,        \* geometry.attributes.position.array (flat, thousandths)
    indexed,          \* whether geometry.index is present
    rawIndices,       \* geometry.index.array (<<>> when absent)
    pc,               \* position inside analyzeGeometry
    i,                \* loop counter of the topology loop (lines 48 / 53)
    vertices,
    uniqueVertsMap,
    processedIndices,
    faces,
    soupTriangles,
    tempHalfEdges,
    heLookup,
    halfEdges,
    wingedEdges,
    edgeKeyToIndex,
    heToWeMap,
    previous,           \* the ProcessedMesh an earlier call returned to the same caller
    currentShape,       \* App state (App.tsx lines 24-34)
    currentMode,
    fullMeshData,
    isConstructionMode,
    currentStep,
    isPlaying

\* the state of the App component
appVars == <<currentShape, currentMode, fullMeshData, isConstructionMode,
             currentStep, isPlaying>>

\* the state of the callers of analyzeGeometry, which the function does not touch
callerVars == <<previous, appVars>>

vars == <<positions, indexed, rawIndices, pc, i, vertices, uniqueVertsMap,
          processedIndices, faces, soupTriangles, tempHalfEdges, heLookup,
          halfEdges, wingedEdges, edgeKeyToIndex, heToWeMap, callerVars>>

-----------------------------------------------------------------------------
(* Bounds of the model *)

\* largest number of triangles in an input
MaxFaces == 2
\* number of raw vertices in the position buffer of an indexed input
NumRaw == 4

-----------------------------------------------------------------------------
(* Values standing for JavaScript's undefined, null and the engine's -1 *)

Undefined == -2
Null == -1
None == -1
\* the null of a variable that holds a ProcessedMesh or nothing
NoMesh == <<>>

-----------------------------------------------------------------------------
(* Helpers for arrays, maps and strings *)

At(s, k) == s[k + 1]

Push(s, e) == Append(s, e)

EmptyMap == [k \in {} |-> 0]

MapHas(m, k) == k \in DOMAIN m

MapSet(m, k, v) == [kk \in (DOMAIN m) \cup {k} |-> IF kk = k THEN v ELSE m[kk]]

DigitChar(d) == At(<<"0", "1", "2", "3", "4", "5", "6", "7", "8", "9">>, d)

RECURSIVE NatStr(_)
\* decimal digits of a non-negative integer
NatStr(n) == IF n < 10 THEN <<DigitChar(n)>>
             ELSE NatStr(n \div 10) \o <<DigitChar(n % 10)>>

Abs(n) == IF n < 0 THEN 0 - n ELSE n

\* Number-to-string of a rounded coordinate h (hundredths), as a template
\* literal prints it: "1", "0.5", "-0.01", "1.25"; zero prints "0".
NumStr(h) ==
    LET a    == Abs(h)
        whole == a \div 100
        frac  == a % 100
        sign  == IF h < 0 THEN <<"-">> ELSE <<>>
        tail  == IF frac = 0 THEN <<>>
                 ELSE IF frac % 10 = 0 THEN <<".", DigitChar(frac \div 10)>>
                 ELSE <<".", DigitChar(frac \div 10), DigitChar(frac % 10)>>
    IN  sign \o NatStr(whole) \o tail

-----------------------------------------------------------------------------
(* Vertex merging *)

\* r: Math.round(n * 100) / 100.  Math.round rounds half towards +infinity.
\* n in thousandths, result in hundredths.
r(n) == (n + 5) \div 10

\* a key that leaves the z coordinate out
VertexKeyNoZ(x, y, z) == NumStr(x) \o <<"_">> \o NumStr(y)

\* `${x}_${y}_${z}`
VertexKey(x, y, z) == NumStr(x) \o <<"_">> \o NumStr(y) \o <<"_">> \o NumStr(z)

\* getOrAddVertex: the id returned, and vertices / uniqueVertsMap afterwards
getOrAddVertex(pIdx) ==
    LET x   == r(At(positions, pIdx))
        y   == r(At(positions, pIdx + 1))
        z   == r(At(positions, pIdx + 2))
        key == VertexKey(x, y, z)
    IN  IF MapHas(uniqueVertsMap, key)
        THEN [id |-> uniqueVertsMap[key], vertices |-> vertices,
              uniqueVertsMap |-> uniqueVertsMap]
        ELSE LET id == Len(vertices)
             IN  [id |-> id,
                  vertices |-> Push(vertices,
                      [id |-> id, x |-> x, y |-> y, z |-> z,
                       incidentEdge |-> Undefined,
                       incidentHalfEdge |-> Undefined]),
                  uniqueVertsMap |-> MapSet(uniqueVertsMap, key, id)]

\* the unindexed branch handing the loop counter itself to getOrAddVertex
RawOffsetUnscaled(k) == IF indexed THEN At(rawIndices, k) * 3 ELSE k

\* number of iterations of the topology loop
TopologyLength == IF indexed THEN Len(rawIndices) ELSE Len(positions) \div 3

\* the position-buffer offset handed to getOrAddVertex at iteration k
RawOffset(k) == IF indexed THEN At(rawIndices, k) * 3 ELSE k * 3

-----------------------------------------------------------------------------
(* Inputs *)

Min2(a, b) == IF a < b THEN a ELSE b

\* the flat buffer of a sequence of coordinate triples
Flatten(ts) == [k \in 1..(3 * Len(ts)) |-> ts[((k - 1) \div 3) + 1][((k - 1) % 3) + 1]]

\* the flat index stream of a sequence of triangles
RECURSIVE Concat(_)
Concat(ss) == IF ss = <<>> THEN <<>> ELSE Head(ss) \o Concat(Tail(ss))

\* raw positions (thousandths) of an unindexed input's vertices; the first
\* two round to the same coordinates
PosPool == {<<0, 0, 0>>, <<4, 0, 0>>, <<0, 5, 0>>, <<0, 0, -6>>}

\* position buffers of an indexed input: NumRaw raw vertices along the x axis,
\* either all distinct after rounding (0, 0.01, 0.02, ...) or with raw vertex 1
\* rounding onto raw vertex 0 (0, 0.004, 0.014, 0.024, ...)
DistinctBuffer == Flatten([v \in 1..NumRaw |-> <<10 * (v - 1), 0, 0>>])

AliasingBuffer ==
    Flatten([v \in 1..NumRaw |-> <<IF v = 1 THEN 0 ELSE 10 * (v - 1) - 6, 0, 0>>])

IndexedBuffers == {DistinctBuffer, AliasingBuffer}

\* Index streams.  Every stream of at most two triangles over the first four
\* raw vertices is an input.  Inputs of more triangles are a stream of two
\* triangles over the first three raw vertices followed by triangles of
\* ExtraFaces: repeats and reversals of a triangle, and triangles on the last
\* raw vertex.
SmallStreams ==
    UNION { [1..(3 * f) -> 0..(Min2(NumRaw, 4) - 1)] : f \in 0..Min2(MaxFaces, 2) }

ExtraFaces ==
    { <<0, 1, 2>>, <<1, 0, 2>>, <<0, 1, NumRaw - 1>>, <<1, 0, NumRaw - 1>> }

LargeStreams ==
    UNION { { s \o Concat(ext) : s \in [1..6 -> 0..2], ext \in [1..n -> ExtraFaces] }
            : n \in 1..(MaxFaces - 2) }

IndexStreams == SmallStreams \cup LargeStreams

\* the indexed inputs: the larger streams come with the distinct buffer only
IndexedInputs ==
    (IndexedBuffers \X SmallStreams) \cup ({DistinctBuffer} \X LargeStreams)

\* Unindexed position buffers.  Every buffer of at most two triangles over
\* PosPool is an input.  Inputs of more triangles are a buffer of two triangles
\* over three positions of the pool followed by triangles of ExtraTriangles.
SmallBuffers ==
    UNION { { Flatten(ts) : ts \in [1..(3 * f) -> PosPool] } : f \in 0..Min2(MaxFaces, 2) }

ExtraTriangles ==
    { <<0, 0, 0, 0, 5, 0, 0, 0, -6>>, <<0, 5, 0, 4, 0, 0, 0, 0, -6>> }

LargeBuffers ==
    UNION { { Flatten(ts) \o Concat(ext) :
                ts \in [1..6 -> {<<0, 0, 0>>, <<0, 5, 0>>, <<0, 0, -6>>}],
                ext \in [1..n -> ExtraTriangles] }
            : n \in 1..(MaxFaces - 2) }

UnindexedBuffers == SmallBuffers \cup LargeBuffers

\* the collections analyzeGeometry declares are empty when a call starts
FreshLocals ==
    /\ i = 0
    /\ vertices = <<>>
    /\ uniqueVertsMap = EmptyMap
    /\ processedIndices = <<>>
    /\ faces = <<>>
    /\ soupTriangles = <<>>
    /\ tempHalfEdges = <<>>
    /\ heLookup = EmptyMap
    /\ halfEdges = <<>>
    /\ wingedEdges = <<>>
    /\ edgeKeyToIndex = EmptyMap
    /\ heToWeMap = EmptyMap

\* the App component as its useState calls construct it
AppInitial ==
    /\ currentShape = "cube"
    /\ currentMode = "indexed"
    /\ fullMeshData = NoMesh
    /\ isConstructionMode = FALSE
    /\ currentStep = -1
    /\ isPlaying = FALSE

Init ==
    /\ indexed \in BOOLEAN
    /\ IF indexed
       THEN \E inp \in IndexedInputs : positions = inp[1] /\ rawIndices = inp[2]
       ELSE positions \in UnindexedBuffers /\ rawIndices = <<>>
    /\ pc = "topology"
    /\ FreshLocals
    /\ previous = NoMesh
    /\ AppInitial

-----------------------------------------------------------------------------
(* 1. Build connected topology: one iteration of the loop of lines 47-56 *)

BuildTopologyStep ==
    /\ pc = "topology"
    /\ UNCHANGED callerVars
    /\ i < TopologyLength
    /\ LET res == getOrAddVertex(RawOffset(i))
       IN  /\ processedIndices' = Push(processedIndices, res.id)
           /\ vertices' = res.vertices
           /\ uniqueVertsMap' = res.uniqueVertsMap
    /\ i' = i + 1
    /\ UNCHANGED <<positions, indexed, rawIndices, pc, faces, soupTriangles,
                   tempHalfEdges, heLookup, halfEdges, wingedEdges,
                   edgeKeyToIndex, heToWeMap>>

(* 2. Create faces: the loop of lines 59-66 *)

\* a copy-paste slip in the face record: v3 read from the slot of v2
FaceDataRepeatedSlot(k) ==
    [id |-> k \div 3,
     v1 |-> At(processedIndices, k),
     v2 |-> At(processedIndices, k + 1),
     v3 |-> At(processedIndices, k + 1),
     incidentEdge |-> Undefined,
     incidentHalfEdge |-> Undefined]

\* the face pushed for the group of processedIndices starting at k
FaceData(k) ==
    [id |-> k \div 3,
     v1 |-> At(processedIndices, k),
     v2 |-> At(processedIndices, k + 1),
     v3 |-> At(processedIndices, k + 2),
     incidentEdge |-> Undefined,
     incidentHalfEdge |-> Undefined]

RECURSIVE FacesFrom(_, _)
FacesFrom(k, acc) ==
    IF k < Len(processedIndices)
    THEN FacesFrom(k + 3, Push(acc, FaceData(k)))
    ELSE acc

CreateFaces ==
    /\ pc = "topology"
    /\ UNCHANGED callerVars
    /\ i >= TopologyLength
    /\ faces' = FacesFrom(0, <<>>)
    /\ pc' = "soup"
    /\ UNCHANGED <<positions, indexed, rawIndices, i, vertices, uniqueVertsMap,
                   processedIndices, soupTriangles, tempHalfEdges, heLookup,
                   halfEdges, wingedEdges, edgeKeyToIndex, heToWeMap>>

(* 3. Generate soup data: the loop of lines 69-80 *)

\* the vertex record itself stored in the soup triangle
Vector3ByReference(v) == v

Vector3(v) == [x |-> v.x, y |-> v.y, z |-> v.z]

RECURSIVE SoupFrom(_, _)
SoupFrom(k, acc) ==
    IF k < Len(processedIndices)
    THEN LET v1 == At(vertices, At(processedIndices, k))
             v2 == At(vertices, At(processedIndices, k + 1))
             v3 == At(vertices, At(processedIndices, k + 2))
         IN  SoupFrom(k + 3, Push(acc,
                [id |-> k \div 3, v1 |-> Vector3(v1), v2 |-> Vector3(v2),
                 v3 |-> Vector3(v3)]))
    ELSE acc

GenerateSoup ==
    /\ pc = "soup"
    /\ UNCHANGED callerVars
    /\ soupTriangles' = SoupFrom(0, <<>>)
    /\ pc' = "halfedges"
    /\ UNCHANGED <<positions, indexed, rawIndices, i, vertices, uniqueVertsMap,
                   processedIndices, faces, tempHalfEdges, heLookup,
                   halfEdges, wingedEdges, edgeKeyToIndex, heToWeMap>>

-----------------------------------------------------------------------------
(* 4. Build half-edges: lines 97-116 *)

HeId(faceId, k) == faceId * 3 + k
NextId(faceId, k) == faceId * 3 + ((k + 1) % 3)
\* prev computed with the offset of next
PrevIdAsNext(faceId, k) == faceId * 3 + ((k + 1) % 3)
PrevId(faceId, k) == faceId * 3 + ((k + 2) % 3)

\* vs[i] and vs[(i + 1) % 3] of a face
VStart(face, k) == At(<<face.v1, face.v2, face.v3>>, k)
\* the target taken from the previous corner instead of the next
VEndPrevious(face, k) == At(<<face.v1, face.v2, face.v3>>, (k + 2) % 3)
VEnd(face, k) == At(<<face.v1, face.v2, face.v3>>, (k + 1) % 3)

TempHalfEdge(face, k) ==
    [id |-> HeId(face.id, k),
     origin |-> VStart(face, k),
     target |-> VEnd(face, k),
     face |-> face.id,
     next |-> NextId(face.id, k),
     prev |-> PrevId(face.id, k),
     twin |-> Null]

RECURSIVE HalfEdgesFrom(_, _)
\* faces.forEach, each face pushing its three half-edges
HalfEdgesFrom(f, acc) ==
    IF f < Len(faces)
    THEN LET face == At(faces, f)
         IN  HalfEdgesFrom(f + 1,
                acc \o <<TempHalfEdge(face, 0), TempHalfEdge(face, 1),
                         TempHalfEdge(face, 2)>>)
    ELSE acc

BuildHalfEdges ==
    /\ pc = "halfedges"
    /\ UNCHANGED callerVars
    /\ tempHalfEdges' = HalfEdgesFrom(0, <<>>)
    /\ pc' = "twins"
    /\ UNCHANGED <<positions, indexed, rawIndices, i, vertices, uniqueVertsMap,
                   processedIndices, faces, soupTriangles, heLookup,
                   halfEdges, wingedEdges, edgeKeyToIndex, heToWeMap>>

(* Link twins: lines 119-129 *)

\* `${a}_${b}`
PairKey(a, b) == NatStr(a) \o <<"_">> \o NatStr(b)

RECURSIVE HeLookupFrom(_, _, _)
\* tempHalfEdges.forEach(he => heLookup.set(key(origin, target), he.id))
HeLookupFrom(hes, k, m) ==
    IF k < Len(hes)
    THEN HeLookupFrom(hes, k + 1,
            MapSet(m, PairKey(At(hes, k).origin, At(hes, k).target), At(hes, k).id))
    ELSE m

\* twins written in one direction only (from the lower id to the higher)
TwinOfOneWay(he, m) ==
    LET key == PairKey(he.target, he.origin)
    IN  IF MapHas(m, key) /\ he.id < m[key] THEN m[key] ELSE he.twin

\* the lookup made with the half-edge's own pair instead of the reverse pair
TwinOfSameDirection(he, m) ==
    LET key == PairKey(he.origin, he.target)
    IN  IF MapHas(m, key) THEN m[key] ELSE he.twin

\* the twin a half-edge receives from the lookup m
TwinOf(he, m) ==
    LET key == PairKey(he.target, he.origin)
    IN  IF MapHas(m, key) THEN m[key] ELSE he.twin

LinkTwins ==
    /\ pc = "twins"
    /\ UNCHANGED callerVars
    /\ LET m == HeLookupFrom(tempHalfEdges, 0, EmptyMap)
       IN  /\ heLookup' = m
           /\ tempHalfEdges' = [k \in DOMAIN tempHalfEdges |->
                 [tempHalfEdges[k] EXCEPT !.twin = TwinOf(tempHalfEdges[k], m)]]
    /\ pc' = "final"
    /\ UNCHANGED <<positions, indexed, rawIndices, i, vertices, uniqueVertsMap,
                   processedIndices, faces, soupTriangles, halfEdges,
                   wingedEdges, edgeKeyToIndex, heToWeMap>>

-----------------------------------------------------------------------------
(* 5. Build the final half-edge structure: lines 132-148 *)

HalfEdgeData(he) ==
    [id |-> he.id,
     originVertex |-> he.origin,
     targetVertex |-> he.target,
     face |-> he.face,
     next |-> he.next,
     prev |-> he.prev,
     twin |-> he.twin]

SetAt(s, k, e) == [s EXCEPT ![k + 1] = e]

RECURSIVE HalfEdgeRefsFromFirstWriter(_, _, _, _)
\* back-references written only where none is set yet
HalfEdgeRefsFromFirstWriter(hes, k, vs, fs) ==
    IF k < Len(hes)
    THEN LET he == At(hes, k)
             v  == At(vs, he.originVertex)
             f  == At(fs, he.face)
         IN  HalfEdgeRefsFromFirstWriter(hes, k + 1,
                SetAt(vs, he.originVertex,
                      IF v.incidentHalfEdge = Undefined
                      THEN [v EXCEPT !.incidentHalfEdge = he.id] ELSE v),
                SetAt(fs, he.face,
                      IF f.incidentHalfEdge = Undefined
                      THEN [f EXCEPT !.incidentHalfEdge = he.id] ELSE f))
    ELSE [vertices |-> vs, faces |-> fs]

RECURSIVE HalfEdgeRefsFrom(_, _, _, _)
\* halfEdges.forEach: vertices[he.originVertex].incidentHalfEdge = he.id and
\* faces[he.face].incidentHalfEdge = he.id
HalfEdgeRefsFrom(hes, k, vs, fs) ==
    IF k < Len(hes)
    THEN LET he == At(hes, k)
         IN  HalfEdgeRefsFrom(hes, k + 1,
                SetAt(vs, he.originVertex,
                      [At(vs, he.originVertex) EXCEPT !.incidentHalfEdge = he.id]),
                SetAt(fs, he.face,
                      [At(fs, he.face) EXCEPT !.incidentHalfEdge = he.id]))
    ELSE [vertices |-> vs, faces |-> fs]

BuildFinalHalfEdges ==
    /\ pc = "final"
    /\ UNCHANGED callerVars
    /\ LET hes  == [k \in DOMAIN tempHalfEdges |-> HalfEdgeData(tempHalfEdges[k])]
           refs == IF Len(hes) > 0
                   THEN HalfEdgeRefsFrom(hes, 0, vertices, faces)
                   ELSE [vertices |-> vertices, faces |-> faces]
       IN  /\ halfEdges' = hes
           /\ vertices' = refs.vertices
           /\ faces' = refs.faces
    /\ pc' = "winged1"
    /\ UNCHANGED <<positions, indexed, rawIndices, i, uniqueVertsMap,
                   processedIndices, soupTriangles, tempHalfEdges, heLookup,
                   wingedEdges, edgeKeyToIndex, heToWeMap>>

-----------------------------------------------------------------------------
(* 6. Build the winged-edge structure, first pass: lines 166-205 *)

\* an edge key that keeps the direction
getEdgeKeyDirected(a, b) == PairKey(a, b)

\* getEdgeKey: a < b ? `${a}_${b}` : `${b}_${a}`
getEdgeKey(a, b) == IF a < b THEN PairKey(a, b) ELSE PairKey(b, a)

\* the orientation test turned round
IsCanonicalReversed(he) == he.origin > he.target

\* isCanonical = he.origin < he.target
IsCanonical(he) == he.origin < he.target

\* a winged edge that takes its id from the half-edge creating it
NewWingedEdgeHalfEdgeId(weId, he) ==
    [id |-> he.id,
     startVertex |-> IF IsCanonical(he) THEN he.origin ELSE he.target,
     endVertex |-> IF IsCanonical(he) THEN he.target ELSE he.origin,
     faceLeft |-> None,
     faceRight |-> None,
     predLeft |-> None,
     succLeft |-> None,
     predRight |-> None,
     succRight |-> None]

NewWingedEdge(weId, he) ==
    [id |-> weId,
     startVertex |-> IF IsCanonical(he) THEN he.origin ELSE he.target,
     endVertex |-> IF IsCanonical(he) THEN he.target ELSE he.origin,
     faceLeft |-> None,
     faceRight |-> None,
     predLeft |-> None,
     succLeft |-> None,
     predRight |-> None,
     succRight |-> None]

\* the two sides exchanged
AssignFaceSwapped(we, he) ==
    IF he.origin = we.startVertex
    THEN [we EXCEPT !.faceRight = he.face]
    ELSE [we EXCEPT !.faceLeft = he.face]

\* a side keeps the first face written to it
AssignFaceFirstWriter(we, he) ==
    IF he.origin = we.startVertex
    THEN IF we.faceLeft = None THEN [we EXCEPT !.faceLeft = he.face] ELSE we
    ELSE IF we.faceRight = None THEN [we EXCEPT !.faceRight = he.face] ELSE we

\* every face written to the left side
AssignFaceAlwaysLeft(we, he) == [we EXCEPT !.faceLeft = he.face]

\* lines 197-204: the face of he goes to the left or to the right side of we
AssignFace(we, he) ==
    IF he.origin = we.startVertex
    THEN [we EXCEPT !.faceLeft = he.face]
    ELSE [we EXCEPT !.faceRight = he.face]

\* one iteration of the first pass over st = [wes, index, heToWe]
FirstPassStep(st, he) ==
    LET key     == getEdgeKey(he.origin, he.target)
        isNew   == ~MapHas(st.index, key)
        index1  == IF isNew THEN MapSet(st.index, key, Len(st.wes)) ELSE st.index
        wes1    == IF isNew THEN Push(st.wes, NewWingedEdge(Len(st.wes), he))
                   ELSE st.wes
        weId    == index1[key]
    IN  [wes    |-> SetAt(wes1, weId, AssignFace(At(wes1, weId), he)),
         index  |-> index1,
         heToWe |-> MapSet(st.heToWe, he.id, weId)]

RECURSIVE FirstPassFrom(_, _, _)
FirstPassFrom(hes, k, st) ==
    IF k < Len(hes)
    THEN FirstPassFrom(hes, k + 1, FirstPassStep(st, At(hes, k)))
    ELSE st

WingedFirstPass ==
    /\ pc = "winged1"
    /\ UNCHANGED callerVars
    /\ LET st == FirstPassFrom(tempHalfEdges, 0,
                    [wes |-> <<>>, index |-> EmptyMap, heToWe |-> EmptyMap])
       IN  /\ wingedEdges' = st.wes
           /\ edgeKeyToIndex' = st.index
           /\ heToWeMap' = st.heToWe
    /\ pc' = "winged2"
    /\ UNCHANGED <<positions, indexed, rawIndices, i, vertices, uniqueVertsMap,
                   processedIndices, faces, soupTriangles, tempHalfEdges,
                   heLookup, halfEdges>>

(* Second pass: lines 209-252 *)

\* successor and predecessor of the left side exchanged
LeftSideSwapped(we) ==
    LET key == PairKey(we.startVertex, we.endVertex)
    IN  IF MapHas(heLookup, key)
        THEN LET heLeft == At(tempHalfEdges, heLookup[key])
                 s == IF MapHas(heToWeMap, heLeft.prev)
                      THEN heToWeMap[heLeft.prev] ELSE we.succLeft
                 p == IF MapHas(heToWeMap, heLeft.next)
                      THEN heToWeMap[heLeft.next] ELSE we.predLeft
             IN  [we EXCEPT !.succLeft = s, !.predLeft = p]
        ELSE we

\* lines 215-227: succLeft / predLeft from the half-edge start -> end
LeftSide(we) ==
    LET key == PairKey(we.startVertex, we.endVertex)
    IN  IF MapHas(heLookup, key)
        THEN LET heLeft == At(tempHalfEdges, heLookup[key])
                 s == IF MapHas(heToWeMap, heLeft.next)
                      THEN heToWeMap[heLeft.next] ELSE we.succLeft
                 p == IF MapHas(heToWeMap, heLeft.prev)
                      THEN heToWeMap[heLeft.prev] ELSE we.predLeft
             IN  [we EXCEPT !.succLeft = s, !.predLeft = p]
        ELSE we

\* the right side looked up with the key of the left side
RightSideLeftKey(we) ==
    LET key == PairKey(we.startVertex, we.endVertex)
    IN  IF MapHas(heLookup, key)
        THEN LET heRight == At(tempHalfEdges, heLookup[key])
                 s == IF MapHas(heToWeMap, heRight.next)
                      THEN heToWeMap[heRight.next] ELSE we.succRight
                 p == IF MapHas(heToWeMap, heRight.prev)
                      THEN heToWeMap[heRight.prev] ELSE we.predRight
             IN  [we EXCEPT !.succRight = s, !.predRight = p]
        ELSE we

\* lines 230-245: succRight / predRight from the half-edge end -> start
RightSide(we) ==
    LET key == PairKey(we.endVertex, we.startVertex)
    IN  IF MapHas(heLookup, key)
        THEN LET heRight == At(tempHalfEdges, heLookup[key])
                 s == IF MapHas(heToWeMap, heRight.next)
                      THEN heToWeMap[heRight.next] ELSE we.succRight
                 p == IF MapHas(heToWeMap, heRight.prev)
                      THEN heToWeMap[heRight.prev] ELSE we.predRight
             IN  [we EXCEPT !.succRight = s, !.predRight = p]
        ELSE we

SetIncidentEdge(s, k, weId) == SetAt(s, k, [At(s, k) EXCEPT !.incidentEdge = weId])

\* back-references without the end vertex
EdgeRefsStartOnly(we, vs, fs) ==
    LET vs1 == SetIncidentEdge(vs, we.startVertex, we.id)
        fs1 == IF we.faceLeft # None THEN SetIncidentEdge(fs, we.faceLeft, we.id)
               ELSE fs
        fs2 == IF we.faceRight # None THEN SetIncidentEdge(fs1, we.faceRight, we.id)
               ELSE fs1
    IN  [vertices |-> vs1, faces |-> fs2]

\* lines 248-251: back-references of the vertices and faces of we
EdgeRefs(we, vs, fs) ==
    LET vs1 == SetIncidentEdge(vs, we.startVertex, we.id)
        vs2 == SetIncidentEdge(vs1, we.endVertex, we.id)
        fs1 == IF we.faceLeft # None THEN SetIncidentEdge(fs, we.faceLeft, we.id)
               ELSE fs
        fs2 == IF we.faceRight # None THEN SetIncidentEdge(fs1, we.faceRight, we.id)
               ELSE fs1
    IN  [vertices |-> vs2, faces |-> fs2]

RECURSIVE SecondPassFrom(_, _)
\* wingedEdges.forEach over st = [wes, vertices, faces]
SecondPassFrom(k, st) ==
    IF k < Len(st.wes)
    THEN LET we   == RightSide(LeftSide(At(st.wes, k)))
             refs == EdgeRefs(we, st.vertices, st.faces)
         IN  SecondPassFrom(k + 1,
                [wes |-> SetAt(st.wes, k, we),
                 vertices |-> refs.vertices,
                 faces |-> refs.faces])
    ELSE st

WingedSecondPass ==
    /\ pc = "winged2"
    /\ UNCHANGED callerVars
    /\ LET st == SecondPassFrom(0,
                    [wes |-> wingedEdges, vertices |-> vertices, faces |-> faces])
       IN  /\ wingedEdges' = st.wes
           /\ vertices' = st.vertices
           /\ faces' = st.faces
    /\ pc' = "done"
    /\ UNCHANGED <<positions, indexed, rawIndices, i, uniqueVertsMap,
                   processedIndices, soupTriangles, tempHalfEdges, heLookup,
                   halfEdges, edgeKeyToIndex, heToWeMap>>

-----------------------------------------------------------------------------

Next ==
    \/ BuildTopologyStep
    \/ CreateFaces
    \/ GenerateSoup
    \/ BuildHalfEdges
    \/ LinkTwins
    \/ BuildFinalHalfEdges
    \/ WingedFirstPass
    \/ WingedSecondPass

Spec == Init /\ [][Next]_vars

\* the ProcessedMesh has been returned (line 254)
Returned == pc = "done"

\* the aggregate handed to the caller (lines 254-260)
ReturnedMesh ==
    [vertices |-> vertices, faces |-> faces, soupTriangles |-> soupTriangles,
     halfEdges |-> halfEdges, edges |-> wingedEdges]

-----------------------------------------------------------------------------
(* A caller that analyses the same buffers twice *)

\* the vertex array hoisted out of the function: the second call appends to
\* the array the first call filled
CallAgainSharedVertices ==
    /\ pc = "done"
    /\ previous = NoMesh
    /\ previous' = ReturnedMesh
    /\ pc' = "topology"
    /\ i' = 0
    /\ vertices' = vertices
    /\ uniqueVertsMap' = EmptyMap
    /\ processedIndices' = <<>>
    /\ faces' = <<>>
    /\ soupTriangles' = <<>>
    /\ tempHalfEdges' = <<>>
    /\ heLookup' = EmptyMap
    /\ halfEdges' = <<>>
    /\ wingedEdges' = <<>>
    /\ edgeKeyToIndex' = EmptyMap
    /\ heToWeMap' = EmptyMap
    /\ UNCHANGED <<positions, indexed, rawIndices, appVars>>

\* entry of analyzeGeometry: every collection of the function is declared
\* inside it, so a call starts from empty ones
EnterAnalyzeGeometry ==
    /\ pc' = "topology"
    /\ i' = 0
    /\ vertices' = <<>>
    /\ uniqueVertsMap' = EmptyMap
    /\ processedIndices' = <<>>
    /\ faces' = <<>>
    /\ soupTriangles' = <<>>
    /\ tempHalfEdges' = <<>>
    /\ heLookup' = EmptyMap
    /\ halfEdges' = <<>>
    /\ wingedEdges' = <<>>
    /\ edgeKeyToIndex' = EmptyMap
    /\ heToWeMap' = EmptyMap

\* the caller keeps the mesh it was given and calls analyzeGeometry again on
\* the same geometry
CallAgain ==
    /\ pc = "done"
    /\ previous = NoMesh
    /\ previous' = ReturnedMesh
    /\ EnterAnalyzeGeometry
    /\ UNCHANGED <<positions, indexed, rawIndices, appVars>>

\* the inputs of at most two triangles
InitRerun ==
    /\ Init
    /\ IF indexed THEN rawIndices \in SmallStreams ELSE positions \in SmallBuffers

NextRerun ==
    \/ Next
    \/ CallAgain

SpecRerun == InitRerun /\ [][NextRerun]_vars

-----------------------------------------------------------------------------
(* The App component: shape selection, construction mode and playback *)

Shapes == {"cube", "sphere", "torus"}
Modes == {"soup", "indexed", "halfedge", "wingededge"}

\* The geometry built for a shape, as <<indexed, positions, index>>.  The
\* three.js generators are outside the repository; each shape is given a mesh
\* within the bounds that keeps a trait of the generated one: the box is an
\* indexed strip of MaxFaces triangles, the icosahedron is unindexed (a single
\* triangle), the torus is indexed and closed, with a seam vertex stored twice
\* that rounding merges.
ShapeGeometry(shape) ==
    CASE shape = "cube" ->
            <<TRUE, DistinctBuffer,
              Concat([f \in 1..MaxFaces |->
                        IF f % 2 = 1 THEN <<f - 1, f, f + 1>> ELSE <<f, f - 1, f + 1>>])>>
      [] shape = "sphere" ->
            <<FALSE, <<0, 0, 0, 0, 5, 0, 0, 0, -6>>, <<>>>>
      [] shape = "torus" ->
            <<TRUE, AliasingBuffer, <<0, 2, 3, 1, 3, 2>>>>

\* mount: the first render, with the shape effect (lines 43-70) entering
\* analyzeGeometry on the geometry of the initial shape
InitApp ==
    /\ AppInitial
    /\ previous = NoMesh
    /\ indexed = ShapeGeometry("cube")[1]
    /\ positions = ShapeGeometry("cube")[2]
    /\ rawIndices = ShapeGeometry("cube")[3]
    /\ pc = "topology"
    /\ FreshLocals

\* the effect keeping the step and the playback flag of the previous shape
EffectCommitKeepingStep ==
    /\ pc = "done"
    /\ fullMeshData' = ReturnedMesh
    /\ pc' = "idle"
    /\ UNCHANGED <<positions, indexed, rawIndices, i, vertices, uniqueVertsMap,
                   processedIndices, faces, soupTriangles, tempHalfEdges,
                   heLookup, halfEdges, wingedEdges, edgeKeyToIndex, heToWeMap,
                   previous, currentShape, currentMode, isConstructionMode,
                   currentStep, isPlaying>>

\* lines 62-67: the shape effect stores the analysis and resets the
\* construction state
EffectCommit ==
    /\ pc = "done"
    /\ fullMeshData' = ReturnedMesh
    /\ currentStep' = -1
    /\ isPlaying' = FALSE
    /\ pc' = "idle"
    /\ UNCHANGED <<positions, indexed, rawIndices, i, vertices, uniqueVertsMap,
                   processedIndices, faces, soupTriangles, tempHalfEdges,
                   heLookup, halfEdges, wingedEdges, edgeKeyToIndex, heToWeMap,
                   previous, currentShape, currentMode, isConstructionMode>>

\* line 247 and the dependency list of line 70: a click on a shape button.
\* Setting the state to its current value re-runs nothing; a new value
\* re-renders and the shape effect analyses the new geometry.
SelectShape(shape) ==
    /\ pc = "idle"
    /\ IF shape = currentShape
       THEN UNCHANGED vars
       ELSE /\ currentShape' = shape
            /\ indexed' = ShapeGeometry(shape)[1]
            /\ positions' = ShapeGeometry(shape)[2]
            /\ rawIndices' = ShapeGeometry(shape)[3]
            /\ EnterAnalyzeGeometry
            /\ UNCHANGED <<previous, currentMode, fullMeshData,
                           isConstructionMode, currentStep, isPlaying>>

\* lines 268-271: a click on a structure button
SelectMode(mode) ==
    /\ pc = "idle"
    /\ currentMode' = mode
    /\ UNCHANGED <<positions, indexed, rawIndices, pc, i, vertices,
                   uniqueVertsMap, processedIndices, faces, soupTriangles,
                   tempHalfEdges, heLookup, halfEdges, wingedEdges,
                   edgeKeyToIndex, heToWeMap, previous, currentShape,
                   fullMeshData, isConstructionMode, currentStep, isPlaying>>

\* the engine state and the part of the App state the construction controls
\* leave alone
controlFrame ==
    <<positions, indexed, rawIndices, pc, i, vertices, uniqueVertsMap,
      processedIndices, faces, soupTriangles, tempHalfEdges, heLookup,
      halfEdges, wingedEdges, edgeKeyToIndex, heToWeMap, previous,
      currentShape, currentMode, fullMeshData>>

\* fullMeshData.faces.length
FaceCount == Len(fullMeshData.faces)

\* lines 208-213
toggleConstructionMode ==
    /\ pc = "idle"
    /\ isConstructionMode' = ~isConstructionMode
    /\ currentStep' = IF ~isConstructionMode
                      THEN -1
                      ELSE IF fullMeshData = NoMesh THEN 0 ELSE FaceCount
    /\ isPlaying' = FALSE
    /\ UNCHANGED controlFrame

\* line 325: the reset button, rendered in construction mode only (line 306)
ResetConstruction ==
    /\ pc = "idle"
    /\ isConstructionMode
    /\ currentStep' = -1
    /\ isPlaying' = FALSE
    /\ UNCHANGED <<controlFrame, isConstructionMode>>

\* line 333: the play / pause button
PlayPause ==
    /\ pc = "idle"
    /\ isConstructionMode
    /\ isPlaying' = ~isPlaying
    /\ UNCHANGED <<controlFrame, isConstructionMode, currentStep>>

\* the next-step button without its upper bound
NextStepUnbounded ==
    /\ pc = "idle"
    /\ isConstructionMode
    /\ isPlaying' = FALSE
    /\ currentStep' = currentStep + 1
    /\ UNCHANGED <<controlFrame, isConstructionMode>>

\* lines 341-344: the next-step button
NextStep ==
    /\ pc = "idle"
    /\ isConstructionMode
    /\ isPlaying' = FALSE
    /\ currentStep' = IF fullMeshData # NoMesh /\ currentStep < FaceCount - 1
                      THEN currentStep + 1
                      ELSE currentStep
    /\ UNCHANGED <<controlFrame, isConstructionMode>>

\* the timer callback advancing one step too far before it stops
PlaybackTickLate ==
    /\ pc = "idle"
    /\ isPlaying
    /\ fullMeshData # NoMesh
    /\ IF currentStep > FaceCount - 1
       THEN isPlaying' = FALSE /\ currentStep' = currentStep
       ELSE isPlaying' = isPlaying /\ currentStep' = currentStep + 1
    /\ UNCHANGED <<controlFrame, isConstructionMode>>

\* lines 73-86: one firing of the interval the playback effect installs
\* while isPlaying holds and a mesh is loaded
PlaybackTick ==
    /\ pc = "idle"
    /\ isPlaying
    /\ fullMeshData # NoMesh
    /\ IF currentStep >= FaceCount - 1
       THEN isPlaying' = FALSE /\ currentStep' = currentStep
       ELSE isPlaying' = isPlaying /\ currentStep' = currentStep + 1
    /\ UNCHANGED <<controlFrame, isConstructionMode>>

\* the events the user can raise
UserEvent ==
    \/ \E shape \in Shapes : SelectShape(shape)
    \/ \E mode \in Modes : SelectMode(mode)
    \/ toggleConstructionMode
    \/ ResetConstruction
    \/ PlayPause
    \/ NextStep

NextApp ==
    \/ Next
    \/ EffectCommit
    \/ UserEvent
    \/ PlaybackTick

SpecApp == InitApp /\ [][NextApp]_vars

\* Playback left alone: the user raises events only while nothing plays.  The
\* interval of the playback effect keeps firing every 500 ms while it is
\* installed, so a tick that stays enabled is taken.
NextPlayback ==
    \/ Next
    \/ EffectCommit
    \/ ~isPlaying /\ UserEvent
    \/ PlaybackTick

SpecPlayback == InitApp /\ [][NextPlayback]_vars /\ WF_vars(PlaybackTick)

-----------------------------------------------------------------------------
(* The snapshot of construction mode: activeMeshData, lines 90-165 *)

\* e.createdStep: the property when the record has it, undefined otherwise
CreatedStep(e) == IF "createdStep" \in DOMAIN e THEN e.createdStep ELSE Undefined

\* a <= b where a may be undefined: undefined compares as NaN, never <=
LessEq(a, b) == a # Undefined /\ a <= b

\* array.slice(0, end) for end >= 0
Slice(s, end) == SubSeq(s, 1, Min2(end, Len(s)))

\* line 97
SlicedFaces(mesh, step) == SelectSeq(mesh.faces, LAMBDA f : f.id <= step)

\* lines 103-106: the largest vertex id the visible faces use, -1 without faces
MaxVertIndex(fs) ==
    LET ids == {-1} \cup UNION {{fs[k].v1, fs[k].v2, fs[k].v3} : k \in DOMAIN fs}
    IN  CHOOSE m \in ids : \A n \in ids : n <= m

\* the slice ending before the largest vertex id
RelevantVerticesExclusive(mesh, step) ==
    Slice(mesh.vertices, MaxVertIndex(SlicedFaces(mesh, step)))

\* line 109
RelevantVertices(mesh, step) ==
    Slice(mesh.vertices, MaxVertIndex(SlicedFaces(mesh, step)) + 1)

\* lines 111-117: a vertex loses the incidence reference whose target is not
\* visible yet
SlicedVertex(mesh, step, v) ==
    [v EXCEPT
       !.incidentEdge =
           IF /\ v.incidentEdge # Undefined
              /\ LessEq(CreatedStep(At(mesh.edges, v.incidentEdge)), step)
           THEN v.incidentEdge ELSE Undefined,
       !.incidentHalfEdge =
           IF /\ v.incidentHalfEdge # Undefined
              /\ At(mesh.halfEdges, v.incidentHalfEdge).face <= step
           THEN v.incidentHalfEdge ELSE Undefined]

SlicedVertices(mesh, step) ==
    LET rel == RelevantVertices(mesh, step)
    IN  [k \in DOMAIN rel |-> SlicedVertex(mesh, step, rel[k])]

\* every twin kept, visible or not
SlicedHalfEdgeKeepingTwin(mesh, step, he) == he

\* lines 124-130: a twin that is not visible yet is hidden
SlicedHalfEdge(mesh, step, he) ==
    LET twinIsVisible == he.twin # Null /\ At(mesh.halfEdges, he.twin).face <= step
    IN  [he EXCEPT !.twin = IF twinIsVisible THEN he.twin ELSE Null]

\* lines 122-131
SlicedHalfEdges(mesh, step) ==
    LET vis == SelectSeq(mesh.halfEdges, LAMBDA he : he.face <= step)
    IN  [k \in DOMAIN vis |-> SlicedHalfEdge(mesh, step, vis[k])]

\* line 143
CheckEdge(mesh, step, id) ==
    IF id # None /\ LessEq(CreatedStep(At(mesh.edges, id)), step) THEN id ELSE None

\* lines 136-153
SlicedEdge(mesh, step, e) ==
    LET rightFaceVisible == e.faceRight # None /\ e.faceRight <= step
    IN  [e EXCEPT
           !.faceRight = IF rightFaceVisible THEN e.faceRight ELSE None,
           !.predRight = IF rightFaceVisible THEN CheckEdge(mesh, step, e.predRight) ELSE None,
           !.succRight = IF rightFaceVisible THEN CheckEdge(mesh, step, e.succRight) ELSE None,
           !.predLeft = CheckEdge(mesh, step, e.predLeft),
           !.succLeft = CheckEdge(mesh, step, e.succLeft)]

\* lines 134-154
SlicedEdges(mesh, step) ==
    LET vis == SelectSeq(mesh.edges, LAMBDA e : LessEq(CreatedStep(e), step))
    IN  [k \in DOMAIN vis |-> SlicedEdge(mesh, step, vis[k])]

\* lines 90-165: the mesh handed to the viewer and to the inspector
ActiveMeshData(mesh, construction, step) ==
    IF mesh = NoMesh THEN NoMesh
    ELSE IF ~construction THEN mesh
    ELSE [vertices |-> SlicedVertices(mesh, step),
          faces |-> SlicedFaces(mesh, step),
          soupTriangles |-> Slice(mesh.soupTriangles, step + 1),
          halfEdges |-> SlicedHalfEdges(mesh, step),
          edges |-> SlicedEdges(mesh, step)]

activeMeshData == ActiveMeshData(fullMeshData, isConstructionMode, currentStep)

-----------------------------------------------------------------------------
(* Properties of analyzeGeometry *)

\* indices of the elements of an array
Idx(s) == 0..(Len(s) - 1)

\* the rounded coordinates of the raw position read by the j-th call of
\* getOrAddVertex
RoundedAt(j) ==
    LET o == RawOffset(j)
    IN  <<r(At(positions, o)), r(At(positions, o + 1)), r(At(positions, o + 2))>>

\* the raw (unrounded) coordinates read by the j-th call
RawAt(j) ==
    LET o == RawOffset(j)
    IN  <<At(positions, o), At(positions, o + 1), At(positions, o + 2)>>

\* the directed pair of a half-edge
Pair(h) == <<h.originVertex, h.targetVertex>>

\* C1. Vertex dedup: two raw positions processed by getOrAddVertex receive the
\* same vertex id exactly when their three coordinates round (2 decimals) to
\* equal values.
C1_VertexDedup ==
    \A j, k \in Idx(processedIndices) :
        (RoundedAt(j) = RoundedAt(k))
            <=> (At(processedIndices, j) = At(processedIndices, k))

\* two different raw positions were merged and two others kept apart
C1_Witness ==
    /\ Returned
    /\ \E j, k \in Idx(processedIndices) :
          /\ RawAt(j) # RawAt(k)
          /\ RoundedAt(j) = RoundedAt(k)
          /\ At(processedIndices, j) = At(processedIndices, k)
    /\ \E j, k \in Idx(processedIndices) :
          /\ RoundedAt(j) # RoundedAt(k)
          /\ At(processedIndices, j) # At(processedIndices, k)

\* the vertex record with id v holds the rounded coordinates of raw call j
VertexIsRounded(v, j) ==
    /\ v \in Idx(vertices)
    /\ <<At(vertices, v).x, At(vertices, v).y, At(vertices, v).z>> = RoundedAt(j)

\* C2. Face count and order: once the faces are built there are
\* indices.length / 3 of them (positions.length / 9 when unindexed); face
\* number f has id f and its v1, v2, v3 are the deduplicated vertex ids of the
\* f-th group of three entries of the index stream, in order.
C2_FaceCountAndOrder ==
    pc # "topology" =>
        /\ Len(faces) = IF indexed THEN Len(rawIndices) \div 3
                        ELSE Len(positions) \div 9
        /\ \A f \in Idx(faces) :
              /\ At(faces, f).id = f
              /\ At(faces, f).v1 = At(processedIndices, 3 * f)
              /\ At(faces, f).v2 = At(processedIndices, 3 * f + 1)
              /\ At(faces, f).v3 = At(processedIndices, 3 * f + 2)
              /\ VertexIsRounded(At(faces, f).v1, 3 * f)
              /\ VertexIsRounded(At(faces, f).v2, 3 * f + 1)
              /\ VertexIsRounded(At(faces, f).v3, 3 * f + 2)

\* two faces were emitted, the second with three different vertex ids
C2_Witness ==
    /\ Returned
    /\ Len(faces) = 2
    /\ Cardinality({At(faces, 1).v1, At(faces, 1).v2, At(faces, 1).v3}) = 3

\* the element stored at array index k has id k
DenseIds(s) == \A k \in Idx(s) : At(s, k).id = k

\* the ids of processedIndices appear in order of first appearance: each entry
\* is an id seen before or the next unused id
FirstAppearanceOrder ==
    \A j \in Idx(processedIndices) :
        LET seen == {At(processedIndices, k) : k \in 0..(j - 1)}
        IN  \/ At(processedIndices, j) \in seen
            \/ At(processedIndices, j) = Cardinality(seen)

\* C3. Dense ids as array indices: in the returned mesh every list holds at
\* index k the element with id k, and vertex ids are assigned in order of first
\* appearance in the index stream.
C3_DenseIds ==
    Returned =>
        /\ DenseIds(vertices)
        /\ DenseIds(faces)
        /\ DenseIds(soupTriangles)
        /\ DenseIds(halfEdges)
        /\ DenseIds(wingedEdges)
        /\ FirstAppearanceOrder
        /\ Len(vertices) = Cardinality({At(processedIndices, j) : j \in Idx(processedIndices)})

\* a mesh whose vertex ids differ from the raw indices and which has several
\* winged edges, fewer than half-edges
C3_Witness ==
    /\ Returned
    /\ indexed
    /\ \E j \in Idx(rawIndices) : At(rawIndices, j) # At(processedIndices, j)
    /\ Len(wingedEdges) >= 3
    /\ Len(wingedEdges) < Len(halfEdges)

\* C4. Half-edge derivation: face f = (v1, v2, v3) has exactly the half-edges
\* 3f, 3f+1, 3f+2, bound to f, with (origin, target) = (v1,v2), (v2,v3),
\* (v3,v1); there are 3 half-edges per face.
C4_HalfEdgeDerivation ==
    Returned =>
        /\ Len(halfEdges) = 3 * Len(faces)
        /\ \A f \in Idx(faces) :
              LET face == At(faces, f)
              IN  /\ \A k \in 0..2 :
                        /\ At(halfEdges, 3 * f + k).id = 3 * f + k
                        /\ At(halfEdges, 3 * f + k).face = f
                  /\ Pair(At(halfEdges, 3 * f)) = <<face.v1, face.v2>>
                  /\ Pair(At(halfEdges, 3 * f + 1)) = <<face.v2, face.v3>>
                  /\ Pair(At(halfEdges, 3 * f + 2)) = <<face.v3, face.v1>>
        /\ \A h \in Idx(halfEdges) :
              At(halfEdges, h).face \in Idx(faces)
                  /\ h \in {3 * At(halfEdges, h).face + k : k \in 0..2}

\* two faces with three different vertex ids each gave six half-edges
C4_Witness ==
    /\ Returned
    /\ Len(halfEdges) = 6
    /\ \A f \in Idx(faces) :
          Cardinality({At(faces, f).v1, At(faces, f).v2, At(faces, f).v3}) = 3

NextOf(h) == At(halfEdges, h).next
PrevOf(h) == At(halfEdges, h).prev

\* C5. Half-edge closure: next(h) and prev(h) belong to the face of h,
\* next(next(next(h))) = h and next(prev(h)) = h.
C5_HalfEdgeClosure ==
    Returned =>
        \A h \in Idx(halfEdges) :
            /\ NextOf(h) \in Idx(halfEdges)
            /\ PrevOf(h) \in Idx(halfEdges)
            /\ At(halfEdges, NextOf(h)).face = At(halfEdges, h).face
            /\ At(halfEdges, PrevOf(h)).face = At(halfEdges, h).face
            /\ NextOf(NextOf(NextOf(h))) = h
            /\ NextOf(PrevOf(h)) = h

\* a mesh of two faces, so that the closure is within each face's triplet
C5_Witness ==
    /\ Returned
    /\ Len(faces) = 2
    /\ NextOf(3) = 4 /\ NextOf(5) = 3 /\ PrevOf(3) = 5

\* the twin of h is set
HasTwin(h) == At(halfEdges, h).twin # Null

\* the half-edges other than h that carry the directed pair of h
SamePair(h) == {g \in Idx(halfEdges) : g # h /\ Pair(At(halfEdges, g)) = Pair(At(halfEdges, h))}

\* C6 as stated. Twin symmetry: for every half-edge h of the output with a
\* twin, halfEdges[h.twin].twin = h.id.
C6_TwinSymmetry ==
    Returned =>
        \A h \in Idx(halfEdges) :
            HasTwin(h) => At(halfEdges, At(halfEdges, h).twin).twin = h

\* C6 amended. Twin symmetry holds for every half-edge h with a twin whose
\* directed pair (origin -> target) occurs in no other half-edge; in general
\* halfEdges[h.twin].twin is the highest-id half-edge with the pair of h.
C6_TwinSymmetryUniquePair ==
    Returned =>
        \A h \in Idx(halfEdges) :
            HasTwin(h) =>
                LET back == At(halfEdges, At(halfEdges, h).twin).twin
                IN  /\ back \in Idx(halfEdges)
                    /\ Pair(At(halfEdges, back)) = Pair(At(halfEdges, h))
                    /\ \A g \in SamePair(h) \cup {h} : g <= back
                    /\ (SamePair(h) = {} => back = h)

\* two faces share an edge in opposite directions and are twinned both ways
C6_Witness ==
    /\ Returned
    /\ \E h, t \in Idx(halfEdges) :
          /\ At(halfEdges, h).face # At(halfEdges, t).face
          /\ SamePair(h) = {} /\ SamePair(t) = {}
          /\ At(halfEdges, h).twin = t
          /\ At(halfEdges, t).twin = h

\* the face of half-edge h has three different vertex ids
ProperFace(h) ==
    LET face == At(faces, At(halfEdges, h).face)
    IN  Cardinality({face.v1, face.v2, face.v3}) = 3

\* C7 as stated. The twin t of h runs from h.target to h.origin, is a
\* different half-edge and is bound to a face other than h.face.
C7_TwinOpposite ==
    Returned =>
        \A h \in Idx(halfEdges) :
            HasTwin(h) =>
                LET t == At(halfEdges, At(halfEdges, h).twin)
                IN  /\ t.originVertex = At(halfEdges, h).targetVertex
                    /\ t.targetVertex = At(halfEdges, h).originVertex
                    /\ t.id # h
                    /\ t.face # At(halfEdges, h).face

\* C7 amended. The twin t of h runs from h.target to h.origin; when the face
\* of h has three different vertex ids, t is a different half-edge bound to
\* another face (for a face with a repeated vertex id the twin may be h itself
\* or lie on the face of h).
C7_TwinOppositeProperFace ==
    Returned =>
        \A h \in Idx(halfEdges) :
            HasTwin(h) =>
                LET t == At(halfEdges, At(halfEdges, h).twin)
                IN  /\ t.originVertex = At(halfEdges, h).targetVertex
                    /\ t.targetVertex = At(halfEdges, h).originVertex
                    /\ ProperFace(h) => (t.id # h /\ t.face # At(halfEdges, h).face)

\* a half-edge of a proper face is twinned with one of another face, and a
\* half-edge of a face with a repeated vertex is its own twin
C7_Witness ==
    /\ Returned
    /\ \E h \in Idx(halfEdges) :
          ProperFace(h) /\ HasTwin(h)
              /\ At(halfEdges, At(halfEdges, h).twin).face # At(halfEdges, h).face
    /\ \E h \in Idx(halfEdges) : At(halfEdges, h).twin = h

\* the half-edges carrying the reverse of the directed pair of h
Reverse(h) ==
    {g \in Idx(halfEdges) :
        Pair(At(halfEdges, g)) = <<At(halfEdges, h).targetVertex,
                                   At(halfEdges, h).originVertex>>}

\* C8. Boundary twins: h.twin is none exactly when no half-edge carries the
\* reverse pair of h; otherwise the twin is a half-edge with the reverse pair.
C8_BoundaryTwins ==
    Returned =>
        \A h \in Idx(halfEdges) :
            /\ (~HasTwin(h)) <=> (Reverse(h) = {})
            /\ HasTwin(h) => At(halfEdges, h).twin \in Reverse(h)

\* a mesh with a boundary half-edge and a twinned one
C8_Witness ==
    /\ Returned
    /\ \E h \in Idx(halfEdges) : ~HasTwin(h) /\ ProperFace(h)
    /\ \E h \in Idx(halfEdges) : HasTwin(h) /\ ProperFace(h)

\* the unordered vertex pairs occurring as (origin, target) of a half-edge
UndirectedPairs == {{At(halfEdges, h).originVertex, At(halfEdges, h).targetVertex} : h \in Idx(halfEdges)}

EdgeEnds(e) == {At(wingedEdges, e).startVertex, At(wingedEdges, e).endVertex}

\* C9. Winged-edge count: there are as many WingedEdge records as distinct
\* unordered vertex pairs among the half-edges, and no two records have the
\* same unordered pair {startVertex, endVertex}.
C9_WingedEdgeCount ==
    Returned =>
        /\ Len(wingedEdges) = Cardinality(UndirectedPairs)
        /\ \A d, e \in Idx(wingedEdges) : EdgeEnds(d) = EdgeEnds(e) => d = e
        /\ {EdgeEnds(e) : e \in Idx(wingedEdges)} = UndirectedPairs

\* an undirected edge met in both directions was merged into one record
C9_Witness ==
    /\ Returned
    /\ \E g, h \in Idx(halfEdges) :
          /\ At(halfEdges, g).originVertex < At(halfEdges, g).targetVertex
          /\ g < h
          /\ h \in Reverse(g)
    /\ Len(wingedEdges) = 5

\* no half-edge is a loop and no directed pair occurs twice
SimpleHalfEdges ==
    \A h \in Idx(halfEdges) :
        /\ At(halfEdges, h).originVertex # At(halfEdges, h).targetVertex
        /\ SamePair(h) = {}

NoBoundary == \A h \in Idx(halfEdges) : HasTwin(h)

\* C10 as stated. The winged-edge count is at most half the half-edge count,
\* with equality exactly when the mesh has no boundary edge.
C10_EdgeCountAtMostHalf ==
    Returned =>
        /\ 2 * Len(wingedEdges) <= Len(halfEdges)
        /\ (2 * Len(wingedEdges) = Len(halfEdges)) <=> NoBoundary

\* C10 amended. When no half-edge has origin = target and no directed pair
\* occurs in more than one half-edge, the winged-edge count is at least half
\* the half-edge count, with equality exactly when no half-edge lacks a twin.
C10_EdgeCountAtLeastHalf ==
    (Returned /\ SimpleHalfEdges) =>
        /\ 2 * Len(wingedEdges) >= Len(halfEdges)
        /\ (2 * Len(wingedEdges) = Len(halfEdges)) <=> NoBoundary

\* a closed mesh of two faces: three winged edges for six half-edges
C10_Witness ==
    /\ Returned
    /\ SimpleHalfEdges
    /\ NoBoundary
    /\ Len(halfEdges) = 6
    /\ Len(wingedEdges) = 3

\* an open mesh without loops or repeated pairs: more edges than half the
\* half-edges
C10_WitnessOpen ==
    /\ Returned
    /\ SimpleHalfEdges
    /\ ~NoBoundary
    /\ 2 * Len(wingedEdges) > Len(halfEdges)

-----------------------------------------------------------------------------
(* Properties of the winged-edge structure *)

WE(e) == At(wingedEdges, e)
HE(h) == At(halfEdges, h)

\* the half-edges running from vertex a to vertex b
FromTo(a, b) == {h \in Idx(halfEdges) : Pair(HE(h)) = <<a, b>>}

\* C11 as stated. Canonical orientation: every WingedEdge of the output has
\* startVertex < endVertex, for every accepted input.
C11_CanonicalOrientation ==
    Returned => \A e \in Idx(wingedEdges) : WE(e).startVertex < WE(e).endVertex

\* C11 amended. Every WingedEdge has startVertex <= endVertex, whichever
\* half-edge created it, and startVertex < endVertex unless the edge comes
\* from half-edges with origin = target (a face with a repeated vertex id),
\* for which startVertex = endVertex.
C11_CanonicalOrientationOrLoop ==
    Returned =>
        \A e \in Idx(wingedEdges) :
            /\ WE(e).startVertex <= WE(e).endVertex
            /\ (WE(e).startVertex = WE(e).endVertex)
                  <=> (\E h \in Idx(halfEdges) :
                          /\ HE(h).originVertex = HE(h).targetVertex
                          /\ {HE(h).originVertex} = EdgeEnds(e))

\* an edge created by a half-edge running from the higher to the lower vertex
\* id, and an edge of a face with a repeated vertex id
C11_Witness ==
    /\ Returned
    /\ \E e \in Idx(wingedEdges) :
          /\ WE(e).startVertex < WE(e).endVertex
          /\ FromTo(WE(e).endVertex, WE(e).startVertex) # {}
          /\ \A h \in FromTo(WE(e).startVertex, WE(e).endVertex) :
                \E g \in FromTo(WE(e).endVertex, WE(e).startVertex) : g < h
    /\ \E e \in Idx(wingedEdges) : WE(e).startVertex = WE(e).endVertex

\* C12. Left/right consistency: if faceLeft is set, a half-edge
\* (startVertex -> endVertex) exists whose face is faceLeft, so that face's
\* triplet holds (startVertex, endVertex) consecutively in winding order; if
\* faceRight is set, a half-edge (endVertex -> startVertex) exists whose face
\* is faceRight.
C12_LeftRightConsistency ==
    Returned =>
        \A e \in Idx(wingedEdges) :
            /\ WE(e).faceLeft # None =>
                  /\ WE(e).faceLeft \in Idx(faces)
                  /\ \E h \in FromTo(WE(e).startVertex, WE(e).endVertex) :
                        HE(h).face = WE(e).faceLeft
                  /\ LET f == At(faces, WE(e).faceLeft)
                     IN  <<WE(e).startVertex, WE(e).endVertex>>
                            \in {<<f.v1, f.v2>>, <<f.v2, f.v3>>, <<f.v3, f.v1>>}
            /\ WE(e).faceRight # None =>
                  /\ WE(e).faceRight \in Idx(faces)
                  /\ \E h \in FromTo(WE(e).endVertex, WE(e).startVertex) :
                        HE(h).face = WE(e).faceRight
                  /\ LET f == At(faces, WE(e).faceRight)
                     IN  <<WE(e).endVertex, WE(e).startVertex>>
                            \in {<<f.v1, f.v2>>, <<f.v2, f.v3>>, <<f.v3, f.v1>>}

\* an edge with two different faces on its sides, and an edge with only a
\* right face
C12_Witness ==
    /\ Returned
    /\ \E e \in Idx(wingedEdges) :
          /\ WE(e).faceLeft # None /\ WE(e).faceRight # None
          /\ WE(e).faceLeft # WE(e).faceRight
    /\ \E e \in Idx(wingedEdges) : WE(e).faceLeft = None /\ WE(e).faceRight # None

\* the WingedEdge id of the undirected edge of half-edge h
EdgeOf(h) ==
    CHOOSE e \in Idx(wingedEdges) :
        EdgeEnds(e) = {HE(h).originVertex, HE(h).targetVertex}

\* the half-edge the lookup finds for the pair a -> b: the last one written
Found(a, b) == CHOOSE h \in FromTo(a, b) : \A g \in FromTo(a, b) : g <= h

\* the pred/succ fields of the left side of e come from the half-edge found
\* for start -> end, those of the right side from the one for end -> start
LinkedFromFound(e) ==
    /\ FromTo(WE(e).startVertex, WE(e).endVertex) # {} =>
          LET hL == Found(WE(e).startVertex, WE(e).endVertex)
          IN  /\ WE(e).succLeft = EdgeOf(NextOf(hL))
              /\ WE(e).predLeft = EdgeOf(PrevOf(hL))
    /\ FromTo(WE(e).endVertex, WE(e).startVertex) # {} =>
          LET hR == Found(WE(e).endVertex, WE(e).startVertex)
          IN  /\ WE(e).succRight = EdgeOf(NextOf(hR))
              /\ WE(e).predRight = EdgeOf(PrevOf(hR))

LeftFaceFromFound(e) ==
    FromTo(WE(e).startVertex, WE(e).endVertex) # {} =>
        HE(Found(WE(e).startVertex, WE(e).endVertex)).face = WE(e).faceLeft

RightFaceFromFound(e) ==
    FromTo(WE(e).endVertex, WE(e).startVertex) # {} =>
        HE(Found(WE(e).endVertex, WE(e).startVertex)).face = WE(e).faceRight

\* C13 as stated. Pred/succ linking: succLeft / predLeft are the WingedEdge
\* ids of next / prev of the half-edge found for start -> end, succRight /
\* predRight those of the half-edge found for end -> start, and the half-edge
\* used on each side belongs to the face recorded as faceLeft / faceRight.
C13_PredSuccLinking ==
    Returned =>
        \A e \in Idx(wingedEdges) :
            LinkedFromFound(e) /\ LeftFaceFromFound(e) /\ RightFaceFromFound(e)

\* C13 amended. The same, except that for an edge with startVertex =
\* endVertex (from a half-edge with origin = target) the right-side lookup
\* finds the half-edge of the left side while faceRight stays none.
C13_PredSuccLinkingOrLoop ==
    Returned =>
        \A e \in Idx(wingedEdges) :
            /\ LinkedFromFound(e)
            /\ LeftFaceFromFound(e)
            /\ WE(e).startVertex # WE(e).endVertex => RightFaceFromFound(e)
            /\ WE(e).startVertex = WE(e).endVertex =>
                  /\ WE(e).faceRight = None
                  /\ WE(e).succRight = WE(e).succLeft
                  /\ WE(e).predRight = WE(e).predLeft

\* an interior edge between two faces whose four links are set and name four
\* different edges other than itself
C13_Witness ==
    /\ Returned
    /\ \E e \in Idx(wingedEdges) :
          /\ WE(e).faceLeft # None /\ WE(e).faceRight # None
          /\ WE(e).faceLeft # WE(e).faceRight
          /\ None \notin {WE(e).succLeft, WE(e).predLeft, WE(e).succRight,
                          WE(e).predRight}
          /\ Cardinality({WE(e).succLeft, WE(e).predLeft, WE(e).succRight,
                          WE(e).predRight, e}) = 5

\* C14 as stated. Boundary sides: a side whose face is none has pred and succ
\* none, and a side whose face is set has both pred and succ set.
C14_BoundarySides ==
    Returned =>
        \A e \in Idx(wingedEdges) :
            /\ (WE(e).faceLeft = None) <=> (WE(e).predLeft = None)
            /\ (WE(e).faceLeft = None) <=> (WE(e).succLeft = None)
            /\ (WE(e).faceRight = None) <=> (WE(e).predRight = None)
            /\ (WE(e).faceRight = None) <=> (WE(e).succRight = None)

\* C14 amended. The same for every WingedEdge with startVertex # endVertex
\* and for the left side of every WingedEdge; an edge with startVertex =
\* endVertex has faceRight none but predRight and succRight set.
C14_BoundarySidesOrLoop ==
    Returned =>
        \A e \in Idx(wingedEdges) :
            /\ (WE(e).faceLeft = None) <=> (WE(e).predLeft = None)
            /\ (WE(e).faceLeft = None) <=> (WE(e).succLeft = None)
            /\ WE(e).startVertex # WE(e).endVertex =>
                  /\ (WE(e).faceRight = None) <=> (WE(e).predRight = None)
                  /\ (WE(e).faceRight = None) <=> (WE(e).succRight = None)
            /\ WE(e).startVertex = WE(e).endVertex =>
                  /\ WE(e).faceRight = None
                  /\ WE(e).predRight # None
                  /\ WE(e).succRight # None

\* boundary edges with the face on the left only and on the right only, an
\* interior edge, and an edge with startVertex = endVertex
C14_Witness ==
    /\ Returned
    /\ \E e \in Idx(wingedEdges) :
          /\ WE(e).startVertex # WE(e).endVertex
          /\ WE(e).faceLeft # None /\ WE(e).faceRight = None
    /\ \E e \in Idx(wingedEdges) : WE(e).faceLeft = None /\ WE(e).faceRight # None
    /\ \E e \in Idx(wingedEdges) : WE(e).faceLeft # None /\ WE(e).faceRight # None
    /\ \E e \in Idx(wingedEdges) : WE(e).startVertex = WE(e).endVertex

\* face-to-face adjacency read from the winged edges with both faces set
WingedAdjacency ==
    { {WE(e).faceLeft, WE(e).faceRight} :
        e \in {d \in Idx(wingedEdges) :
                  WE(d).faceLeft # None /\ WE(d).faceRight # None} }

\* face-to-face adjacency read from the half-edges with a twin
TwinAdjacency ==
    { {HE(h).face, HE(HE(h).twin).face} : h \in {g \in Idx(halfEdges) : HasTwin(g)} }

\* no directed pair occurs in more than one half-edge
UniquePairs == \A h \in Idx(halfEdges) : SamePair(h) = {}

\* C15 as stated. Adjacency round-trip: the unordered face pairs
\* {faceLeft, faceRight} of the winged edges with both faces set are the
\* unordered face pairs {h.face, halfEdges[h.twin].face} of the half-edges
\* with a twin.
C15_AdjacencyRoundTrip == Returned => WingedAdjacency = TwinAdjacency

\* C15 amended. The two adjacencies are equal for every output mesh in which
\* no directed pair occurs in more than one half-edge; in every mesh the
\* adjacency of the winged edges is contained in that of the twins.
C15_AdjacencyRoundTripUniquePairs ==
    Returned =>
        /\ UniquePairs => WingedAdjacency = TwinAdjacency
        /\ WingedAdjacency \subseteq TwinAdjacency

\* two different faces adjacent across an edge, seen by both structures
C15_Witness ==
    /\ Returned
    /\ UniquePairs
    /\ \E f, g \in Idx(faces) : f # g /\ {f, g} \in WingedAdjacency
    /\ WingedAdjacency = TwinAdjacency

\* the input is one triangle whose three positions round to different
\* coordinates
SingleTriangle ==
    /\ TopologyLength = 3
    /\ Cardinality({RoundedAt(0), RoundedAt(1), RoundedAt(2)}) = 3

\* C16. Single-triangle scenario: three distinct positions with indices
\* [0,1,2] yield 3 vertices, 1 face, 3 half-edges all without twin, and 3
\* winged edges each with exactly one of faceLeft / faceRight equal to 0 and
\* the other none.
C16_SingleTriangle ==
    (Returned /\ SingleTriangle) =>
        /\ Len(vertices) = 3
        /\ Len(faces) = 1
        /\ Len(halfEdges) = 3
        /\ \A h \in Idx(halfEdges) : HE(h).twin = Null
        /\ Len(wingedEdges) = 3
        /\ \A e \in Idx(wingedEdges) :
              {WE(e).faceLeft, WE(e).faceRight} = {0, None}

\* the scenario itself: indices [0,1,2] over distinct positions
C16_Witness ==
    /\ Returned
    /\ indexed
    /\ rawIndices = <<0, 1, 2>>
    /\ positions = DistinctBuffer
    /\ SingleTriangle

\* the input is the two triangles (0,1,2) and (1,3,2) over four vertices
TwoTriangles ==
    /\ processedIndices = <<0, 1, 2, 1, 3, 2>>
    /\ Len(vertices) = 4

\* the ids of the winged edges of face f other than e
OtherEdgesOf(f, e) ==
    {EdgeOf(h) : h \in {g \in Idx(halfEdges) : HE(g).face = f}} \ {e}

\* C17. Two-triangle scenario: faces (0,1,2) and (1,3,2) over four vertices
\* yield exactly 5 winged edges; the shared edge {1,2} has both faces set, its
\* predLeft / succLeft are the two other edges of its left face and its
\* predRight / succRight the two other edges of its right face.
C17_TwoTriangles ==
    (Returned /\ TwoTriangles) =>
        /\ Len(wingedEdges) = 5
        /\ \E e \in Idx(wingedEdges) :
              /\ EdgeEnds(e) = {1, 2}
              /\ WE(e).faceLeft # None /\ WE(e).faceRight # None
              /\ {WE(e).faceLeft, WE(e).faceRight} = {0, 1}
              /\ None \notin {WE(e).predLeft, WE(e).succLeft,
                              WE(e).predRight, WE(e).succRight}
              /\ {WE(e).predLeft, WE(e).succLeft} = OtherEdgesOf(WE(e).faceLeft, e)
              /\ {WE(e).predRight, WE(e).succRight} = OtherEdgesOf(WE(e).faceRight, e)
              /\ Cardinality(OtherEdgesOf(WE(e).faceLeft, e)) = 2
              /\ Cardinality(OtherEdgesOf(WE(e).faceRight, e)) = 2

\* the scenario itself: indices [0,1,2, 1,3,2] over distinct positions
C17_Witness ==
    /\ Returned
    /\ indexed
    /\ rawIndices = <<0, 1, 2, 1, 3, 2>>
    /\ positions = DistinctBuffer
    /\ TwoTriangles

\* the stored coordinates of vertex v as an embedded position
PositionOf(v) ==
    [x |-> At(vertices, v).x, y |-> At(vertices, v).y, z |-> At(vertices, v).z]

\* C18. Soup emission: one SoupTriangle per face, with the id of the face, and
\* its embedded v1, v2, v3 are the stored (rounded) coordinates of the face's
\* v1, v2, v3 vertices, held as positions of their own (x, y, z only) and not
\* as the vertex records.
C18_SoupEmission ==
    Returned =>
        /\ Len(soupTriangles) = Len(faces)
        /\ \A f \in Idx(faces) :
              LET t == At(soupTriangles, f)
                  face == At(faces, f)
              IN  /\ t.id = face.id
                  /\ t.v1 = PositionOf(face.v1)
                  /\ t.v2 = PositionOf(face.v2)
                  /\ t.v3 = PositionOf(face.v3)
                  /\ t.v1 # At(vertices, face.v1)
                  /\ <<t.v1.x, t.v1.y, t.v1.z>> = RoundedAt(3 * f)
                  /\ <<t.v2.x, t.v2.y, t.v2.z>> = RoundedAt(3 * f + 1)
                  /\ <<t.v3.x, t.v3.y, t.v3.z>> = RoundedAt(3 * f + 2)

\* two soup triangles that embed the position of a shared vertex twice
C18_Witness ==
    /\ Returned
    /\ Len(soupTriangles) = 2
    /\ At(faces, 0).v2 = At(faces, 1).v1
    /\ At(soupTriangles, 0).v2 = At(soupTriangles, 1).v1
    /\ At(soupTriangles, 0).v1 # At(soupTriangles, 0).v2
    /\ At(soupTriangles, 1).v3.z < 0

\* the half-edges leaving vertex v
Outgoing(v) == {h \in Idx(halfEdges) : HE(h).originVertex = v}

\* C19. incidentHalfEdge back-references: every vertex names the highest-id
\* half-edge whose originVertex is that vertex, and every face f names its
\* half-edge 3f + 2.
C19_IncidentHalfEdge ==
    Returned =>
        /\ \A v \in Idx(vertices) :
              LET h == At(vertices, v).incidentHalfEdge
              IN  /\ h \in Outgoing(v)
                  /\ \A g \in Outgoing(v) : g <= h
        /\ \A f \in Idx(faces) :
              LET h == At(faces, f).incidentHalfEdge
              IN  /\ h = 3 * f + 2
                  /\ h \in Idx(halfEdges)
                  /\ HE(h).face = f

\* a vertex shared by two faces names a half-edge of the later face
C19_Witness ==
    /\ Returned
    /\ Len(faces) = 2
    /\ \E v \in Idx(vertices) :
          /\ \E g \in Outgoing(v) : HE(g).face = 0
          /\ HE(At(vertices, v).incidentHalfEdge).face = 1

\* the winged edges with vertex v at one end
EdgesAt(v) == {e \in Idx(wingedEdges) : v \in EdgeEnds(e)}

\* C20. incidentEdge back-references: every vertex names the highest-id
\* WingedEdge that has the vertex as startVertex or endVertex, and every face
\* whose incidentEdge is set names a WingedEdge whose faceLeft or faceRight is
\* that face.
C20_IncidentEdge ==
    Returned =>
        /\ \A v \in Idx(vertices) :
              LET e == At(vertices, v).incidentEdge
              IN  /\ e \in EdgesAt(v)
                  /\ \A d \in EdgesAt(v) : d <= e
        /\ \A f \in Idx(faces) :
              LET e == At(faces, f).incidentEdge
              IN  e # Undefined =>
                    /\ e \in Idx(wingedEdges)
                    /\ f \in {WE(e).faceLeft, WE(e).faceRight}

\* a vertex with two edges, a face with its incidentEdge set and a face left
\* without one (every side it had was overwritten by a later face)
C20_Witness ==
    /\ Returned
    /\ \E v \in Idx(vertices) : Cardinality(EdgesAt(v)) >= 2
    /\ \E f \in Idx(faces) : At(faces, f).incidentEdge # Undefined
    /\ \E f \in Idx(faces) : At(faces, f).incidentEdge = Undefined

RoundedRaw(p) ==
    <<r(At(positions, 3 * p)), r(At(positions, 3 * p + 1)), r(At(positions, 3 * p + 2))>>

\* the coordinates stored in vertex v
Coords(v) == <<At(vertices, v).x, At(vertices, v).y, At(vertices, v).z>>

\* the vertex id the mesh gives raw position p of an unindexed input: slot
\* p % 3 of face p \div 3
IdOfRaw(p) == VStart(At(faces, p \div 3), p % 3)

\* C22. Unindexed input: without an index buffer every three consecutive raw
\* positions form one face, in order; raw positions that round to the same
\* coordinates get one vertex id, also across triangles, so that the vertex
\* count is the number of distinct rounded positions.
C22_UnindexedInput ==
    (Returned /\ ~indexed) =>
        LET raw == 0..((Len(positions) \div 3) - 1)
        IN  /\ Len(faces) * 3 = Len(positions) \div 3
            /\ \A p \in raw :
                  /\ IdOfRaw(p) \in Idx(vertices)
                  /\ Coords(IdOfRaw(p)) = RoundedRaw(p)
            /\ \A p, q \in raw :
                  (RoundedRaw(p) = RoundedRaw(q)) <=> (IdOfRaw(p) = IdOfRaw(q))
            /\ Len(vertices) = Cardinality({RoundedRaw(p) : p \in raw})

\* an unindexed input of two triangles in which raw positions of different
\* triangles, not equal before rounding, were merged
C22_Witness ==
    /\ Returned
    /\ ~indexed
    /\ Len(faces) = 2
    /\ Len(vertices) < Len(positions) \div 3
    /\ \E p \in 0..2, q \in 3..5 :
          /\ SubSeq(positions, 3 * p + 1, 3 * p + 3) # SubSeq(positions, 3 * q + 1, 3 * q + 3)
          /\ IdOfRaw(p) = IdOfRaw(q)

\* the winged edge on the vertex pair {a, b}
EdgeOn(a, b) == WE(CHOOSE e \in Idx(wingedEdges) : EdgeEnds(e) = {a, b})

\* the face, predecessor and successor a winged edge records on one side
SideRecord(we, onLeft) ==
    IF onLeft
    THEN [face |-> we.faceLeft, pred |-> we.predLeft, succ |-> we.succLeft]
    ELSE [face |-> we.faceRight, pred |-> we.predRight, succ |-> we.succRight]

\* the last-writer rule for the directed pair a -> b, the side of the winged
\* edge being the left one when onLeft and the right one otherwise
LastWriterRule(a, b, onLeft) ==
    LET top == Found(a, b)
    IN  /\ \A h \in FromTo(b, a) : HE(h).twin = top
        /\ SideRecord(EdgeOn(a, b), onLeft) =
              [face |-> HE(top).face,
               pred |-> EdgeOf(PrevOf(top)),
               succ |-> EdgeOf(NextOf(top))]
        /\ \A g \in FromTo(a, b) \ {top} :
              \A h \in Idx(halfEdges) : HE(h).twin # g

\* C23 as stated. Non-manifold last-writer rule: when a directed pair a -> b
\* occurs in more than one half-edge, every half-edge b -> a has as twin the
\* highest-id half-edge a -> b, the winged edge {a, b} records on the left side
\* if a < b, on the right side otherwise, the face of that half-edge and the
\* pred/succ derived from it, and no earlier half-edge a -> b is a twin.
C23_LastWriterRule ==
    Returned =>
        \A a, b \in Idx(vertices) :
            Cardinality(FromTo(a, b)) > 1 => LastWriterRule(a, b, a < b)

\* C23 amended: the side is the left one if a <= b (a pair a -> a of a
\* degenerate face runs start -> end of its loop edge), the right one
\* otherwise.
C23_LastWriterRuleLoopLeft ==
    Returned =>
        \A a, b \in Idx(vertices) :
            Cardinality(FromTo(a, b)) > 1 => LastWriterRule(a, b, a <= b)

\* two faces run the pair a -> b (a # b) and a third half-edge runs b -> a:
\* needs three faces, or two with a degenerate one
C23_Witness ==
    /\ Returned
    /\ \E a, b \in Idx(vertices) :
          /\ a # b
          /\ Cardinality(FromTo(a, b)) > 1
          /\ FromTo(b, a) # {}
          /\ \E g, h \in FromTo(a, b) : HE(g).face # HE(h).face

\* every face has three different vertex ids
ProperFaces ==
    \A f \in Idx(faces) :
        Cardinality({At(faces, f).v1, At(faces, f).v2, At(faces, f).v3}) = 3

\* the faces recorded on the sides of winged edge e
FacesOf(e) == {WE(e).faceLeft, WE(e).faceRight} \ {None}

\* the successor / predecessor of winged edge e on the side of face f
SuccOn(e, f) == IF WE(e).faceLeft = f THEN WE(e).succLeft ELSE WE(e).succRight
PredOn(e, f) == IF WE(e).faceLeft = f THEN WE(e).predLeft ELSE WE(e).predRight

\* the winged edges of the three half-edges of face f
EdgesOfFace(f) == {EdgeOf(HeId(f, k)) : k \in 0..2}

\* C24. Winged-edge face cycle: when every face has three distinct vertex ids
\* and no directed pair occurs in more than one half-edge, then for every
\* winged edge e and face f on one of its sides the successor on f's side,
\* taken three times, leads back to e through exactly the three edges of f,
\* and the predecessor on f's side of e's successor is e.
C24_FaceCycle ==
    (Returned /\ ProperFaces /\ UniquePairs) =>
        \A e \in Idx(wingedEdges) : \A f \in FacesOf(e) :
            LET e1 == SuccOn(e, f)
                e2 == SuccOn(e1, f)
                e3 == SuccOn(e2, f)
            IN  /\ e1 \in Idx(wingedEdges) /\ e2 \in Idx(wingedEdges)
                /\ e3 = e
                /\ Cardinality({e, e1, e2}) = 3
                /\ {e, e1, e2} = EdgesOfFace(f)
                /\ PredOn(e1, f) = e

\* two proper faces share an edge, which lies on the cycle of both, one of
\* them on its right side
C24_Witness ==
    /\ Returned /\ ProperFaces /\ UniquePairs
    /\ Len(faces) = 2
    /\ \E e \in Idx(wingedEdges) : FacesOf(e) = {0, 1}
    /\ \E e \in Idx(wingedEdges) : WE(e).faceLeft = None /\ WE(e).faceRight # None

-----------------------------------------------------------------------------
(* Properties of the App component *)

\* C25. Construction step bounds: after any sequence of UI events and timer
\* ticks, whenever construction mode is on a mesh is loaded and
\* -1 <= currentStep <= faces.length - 1 for that mesh.
C25_StepBounds ==
    isConstructionMode =>
        /\ fullMeshData # NoMesh
        /\ -1 <= currentStep
        /\ currentStep <= FaceCount - 1

\* construction mode on a shape selected by the user, at the last face
C25_Witness ==
    /\ pc = "idle"
    /\ isConstructionMode
    /\ currentShape # "cube"
    /\ FaceCount >= 2
    /\ currentStep = FaceCount - 1

\* C26. Playback terminates: with playback started in construction mode and
\* the user raising no further event, every timer tick below the last face
\* adds exactly 1 to currentStep; playback leads to currentStep =
\* faces.length - 1 with isPlaying false; the tick at the last face stops
\* playback without moving the step, and a stopped timer does not fire.
C26_PlaybackTerminates ==
    /\ [][PlaybackTick =>
            IF currentStep < FaceCount - 1
            THEN currentStep' = currentStep + 1 /\ isPlaying'
            ELSE currentStep' = currentStep /\ ~isPlaying']_vars
    /\ [][~isPlaying => ~PlaybackTick]_vars
    /\ (isPlaying /\ isConstructionMode)
          ~> (fullMeshData # NoMesh /\ ~isPlaying /\ currentStep = FaceCount - 1)

\* playback has advanced to the last face of a mesh of several faces and is
\* still running
C26_Witness ==
    /\ pc = "idle"
    /\ isPlaying
    /\ isConstructionMode
    /\ FaceCount >= 2
    /\ currentStep = FaceCount - 1

\* C30. Shape change resets construction state: a click on another shape
\* starts the analysis of that shape's geometry; until the effect has stored
\* its result the shape, construction mode and structure mode stay as they
\* are; when it stores it, fullMeshData is the mesh analyzeGeometry returned
\* for the geometry of the selected shape, currentStep = -1 and isPlaying =
\* false, while construction mode and structure mode are unchanged.  (A click
\* on the shape already selected changes nothing.)
C30_ShapeChangeResets ==
    [][/\ currentShape' # currentShape =>
             /\ pc' = "topology"
             /\ <<indexed', positions', rawIndices'>> = ShapeGeometry(currentShape')
             /\ UNCHANGED <<isConstructionMode, currentMode>>
       /\ pc # "idle" =>
             UNCHANGED <<currentShape, isConstructionMode, currentMode,
                         indexed, positions, rawIndices>>
       /\ (pc = "done" /\ pc' = "idle") =>
             /\ <<indexed, positions, rawIndices>> = ShapeGeometry(currentShape)
             /\ fullMeshData' = ReturnedMesh
             /\ Len(fullMeshData'.faces) = TopologyLength \div 3
             /\ currentStep' = -1
             /\ isPlaying' = FALSE]_vars

\* the analysis of a newly selected shape has returned while the App still
\* plays the previous shape in construction mode, past its first face
C30_Witness ==
    /\ pc = "done"
    /\ currentShape # "cube"
    /\ isConstructionMode
    /\ isPlaying
    /\ currentStep >= 0
    /\ currentMode # "indexed"
    /\ fullMeshData # ReturnedMesh

-----------------------------------------------------------------------------
(* Properties of the construction-mode snapshot, for every mesh the engine
   returns and every step *)

\* the snapshot of the returned mesh in construction mode at step k
SnapshotAt(k) == ActiveMeshData(ReturnedMesh, TRUE, k)

\* the steps of construction mode
Steps == -1..(Len(faces) - 1)

\* the vertex ids the faces 0..k refer to
ReferencedUpTo(k) ==
    UNION {{At(faces, f).v1, At(faces, f).v2, At(faces, f).v3} : f \in 0..k}

\* C27. Snapshot vertices: in construction mode at step k the snapshot's face
\* list is exactly faces 0..k, and its vertex list holds, at index v, the
\* vertex with id v and its coordinates, for exactly the vertex ids that faces
\* 0..k refer to: no vertex used only by a later face, none of a visible face
\* missing.
C27_SnapshotVertices ==
    Returned =>
        \A k \in Steps :
            LET snap == SnapshotAt(k)
            IN  /\ snap.faces = SubSeq(faces, 1, k + 1)
                /\ Idx(snap.vertices) = ReferencedUpTo(k)
                /\ \A v \in Idx(snap.vertices) :
                      /\ At(snap.vertices, v).id = v
                      /\ At(snap.vertices, v).x = At(vertices, v).x
                      /\ At(snap.vertices, v).y = At(vertices, v).y
                      /\ At(snap.vertices, v).z = At(vertices, v).z

\* a mesh of two faces whose second face brings a new vertex: the snapshot of
\* step 0 leaves it out
C27_Witness ==
    /\ Returned
    /\ Len(faces) = 2
    /\ ReferencedUpTo(1) # ReferencedUpTo(0)
    /\ Cardinality(ReferencedUpTo(0)) = 3
    /\ Len(SnapshotAt(0).vertices) = 3
    /\ Len(SnapshotAt(1).vertices) = 4

\* C28. Snapshot half-edges: in construction mode at step k the snapshot holds
\* exactly the half-edges of faces 0..k, the one at index h having id h; the
\* twin of each is the twin of the full mesh when that twin belongs to a face
\* <= k and none otherwise, all other fields being those of the full mesh; no
\* twin names a half-edge absent from the snapshot.
C28_SnapshotHalfEdges ==
    Returned =>
        \A k \in Steps :
            LET snap == SnapshotAt(k)
            IN  /\ Len(snap.halfEdges) = 3 * (k + 1)
                /\ \A h \in Idx(snap.halfEdges) :
                      LET sh == At(snap.halfEdges, h)
                      IN  /\ sh.id = h
                          /\ sh.face <= k
                          /\ sh = [HE(h) EXCEPT !.twin = sh.twin]
                          /\ sh.twin =
                                IF HE(h).twin # Null /\ HE(HE(h).twin).face <= k
                                THEN HE(h).twin ELSE Null
                          /\ sh.twin # Null => sh.twin \in Idx(snap.halfEdges)
                /\ \A h \in Idx(halfEdges) :
                      HE(h).face <= k => h \in Idx(snap.halfEdges)

\* a half-edge of face 0 whose twin belongs to face 1: hidden at step 0, shown
\* at step 1
C28_Witness ==
    /\ Returned
    /\ Len(faces) = 2
    /\ \E h \in 0..2 :
          /\ HE(h).twin \in 3..5
          /\ At(SnapshotAt(0).halfEdges, h).twin = Null
          /\ At(SnapshotAt(1).halfEdges, h).twin = HE(h).twin

\* C29 as stated. Final-step snapshot equals the full mesh: in construction
\* mode with currentStep = faces.length - 1 the snapshot has the same vertices
\* (with incidentEdge and incidentHalfEdge), faces, half-edges (with twins)
\* and winged edges (with faceRight and all pred/succ) as the mesh
\* analyzeGeometry returned.
C29_FinalSnapshotIsFullMesh ==
    Returned =>
        LET snap == SnapshotAt(Len(faces) - 1)
        IN  /\ snap.vertices = vertices
            /\ snap.faces = faces
            /\ snap.halfEdges = halfEdges
            /\ snap.edges = wingedEdges

====
